---- MODULE Spec2Model ----
(***************************************************************************)
(* The MCP session client of src/mcp_client.py: the SSE listener thread    *)
(* (sse_listener), the command sender (send_command, list_tool_names,      *)
(* show_tool_info) and the interactive main thread (__main__).  The two    *)
(* threads share the module globals without locks; every access of a       *)
(* shared global is a step of its own.                                     *)
(***************************************************************************)
EXTENDS Integers, Sequences, FiniteSets, TLC

(***************************************************************************)
(* Bounds of the model.                                                    *)
(***************************************************************************)
\* number of POSTs issued by the main thread in one run
MaxSends == 2
\* longest result.tools array the server sends
MaxTools == 2

(***************************************************************************)
(* Python values.  None and strings; a string read character by character  *)
(* (the event data, the session id) is a sequence of tokens.               *)
(***************************************************************************)
None == [isNone |-> TRUE]
Str(s) == [isNone |-> FALSE, s |-> s]

\* Python truthiness of an optional string: None and "" are falsy
Truthy(x) == (~x.isNone) /\ x.s # <<>>

(***************************************************************************)
(* JSON values as json.loads returns them: None, dict, list, str.  A dict  *)
(* is its set of <<key, value>> pairs.                                     *)
(***************************************************************************)
JNull == [t |-> "null"]
JStr(s) == [t |-> "str", s |-> s]
JList(items) == [t |-> "list", items |-> items]
JObj(kv) == [t |-> "obj", kv |-> kv]

\* `key in v` raises TypeError for None, is key membership for a dict and
\* element membership for a list ("k in str" is substring search: the string
\* values of the model are tool names, which hold neither key as a substring)
InRaises(v) == v.t = "null"
In(key, v) ==
    CASE v.t = "obj"  -> \E p \in v.kv : p[1] = key
      [] v.t = "list" -> \E i \in 1..Len(v.items) : v.items[i] = JStr(key)
      [] OTHER        -> FALSE

\* v[key] of a dict that has the key
Get(key, v) == (CHOOSE p \in v.kv : p[1] = key)[2]

(***************************************************************************)
(* The event data of the SSE stream.  The text is a token sequence: PFX    *)
(* stands for the characters "/messages?sessionId" (which hold no "="),    *)
(* the other tokens are single characters.  json is what json.loads makes  *)
(* of the text, NotJSON when it raises JSONDecodeError.                    *)
(***************************************************************************)
PFX == "/messages?sessionId"
NotJSON == [t |-> "invalid"]

\* the values a bootstrap event carries after "sessionId="
BootValues == { <<>>, <<"a">>, <<"b">>, <<"a", "=", "b">> }

BootEvent(v) == [text |-> <<PFX, "=">> \o v, json |-> NotJSON]
EmptyEvent == [text |-> <<>>, json |-> NotJSON]
RawEvent == [text |-> <<"o", "k">>, json |-> NotJSON]
JsonEvent(d) == [text |-> <<"{">>, json |-> d]

\* tool descriptors, and an entry without the name field
ToolNames == {"a", "b"}
Tool(n, m) == JObj({<<"name", JStr(n)>>, <<"meta", JStr(m)>>})
Nameless == JObj({<<"meta", JStr("m1")>>})
ToolEntries == {Tool("a", "m1"), Tool("b", "m1")}

SeqsUpTo(S, n) == UNION {[1..k -> S] : k \in 0..n}

\* a tools/list response
ToolsResult(ts) == JObj({<<"id", JStr("1")>>, <<"result", JObj({<<"tools", ts>>})>>})

\* responses listing two tools of the same name
TwinToolsData ==
    { ToolsResult(JList(<<Tool("a", "m1"), Tool("a", "m2")>>)),
      ToolsResult(JList(<<Tool("a", "m2"), Tool("a", "m1")>>)) }

\* a response whose tools is null; responses with an entry that has no name
BadToolsData ==
    { ToolsResult(JNull),
      ToolsResult(JList(<<Nameless>>)),
      ToolsResult(JList(<<Tool("b", "m1"), Nameless>>)) }

\* null, a list, a notification, an error, a null result, a tools/call result
OtherData ==
    { JNull,
      JList(<<>>),
      JObj({<<"method", JStr("notify")>>}),
      JObj({<<"error", JStr("e")>>}),
      JObj({<<"result", JNull>>}),
      JObj({<<"result", JObj({<<"content", JList(<<>>)>>})>>}) }

JsonData ==
    OtherData \cup BadToolsData \cup TwinToolsData
    \cup { ToolsResult(JList(ts)) : ts \in SeqsUpTo(ToolEntries, MaxTools) }

Events ==
    {EmptyEvent, RawEvent}
    \cup { BootEvent(v) : v \in BootValues }
    \cup { JsonEvent(d) : d \in JsonData }

NoEvent == [text |-> <<"-">>, json |-> NotJSON]

\* event_data.startswith("/messages?sessionId=")
StartsWithPrefix(text) == Len(text) >= 2 /\ text[1] = PFX /\ text[2] = "="

\* text.split(sep): the pieces between the occurrences of sep
RECURSIVE SplitFrom(_, _, _)
SplitFrom(text, sep, cur) ==
    IF text = <<>> THEN <<cur>>
    ELSE IF Head(text) = sep
         THEN <<cur>> \o SplitFrom(Tail(text), sep, <<>>)
         ELSE SplitFrom(Tail(text), sep, Append(cur, Head(text)))
Split(text, sep) == SplitFrom(text, sep, <<>>)

\* session_id = event_data.split("=")[1]
SessionIdOf(text) == Split(text, "=")[2]

(***************************************************************************)
(* What the listener prints for one event, one record per print call.      *)
(***************************************************************************)
OutSession(id) == [k |-> "session", id |-> id]
OutRaw(text) == [k |-> "raw", text |-> text]
OutEvent(data) == [k |-> "event", data |-> data]
OutNamesHeader == [k |-> "names_header"]
OutBullet(n) == [k |-> "bullet", name |-> n]
OutTotal(n) == [k |-> "total", n |-> n]
OutInfo(req, tool) == [k |-> "info", name |-> req, tool |-> tool]
OutNotFound(req) == [k |-> "notfound", name |-> req]

\* 'result' in data and 'tools' in data['result'], left to right:
\* "yes", "no", or "TypeError" when an operand of `in` is None or
\* data['result'] subscripts a list
HasResultTools(data) ==
    IF InRaises(data) THEN "TypeError"
    ELSE IF ~In("result", data) THEN "no"
    ELSE IF data.t # "obj" THEN "TypeError"
    ELSE LET r == Get("result", data)
         IN  IF InRaises(r) THEN "TypeError"
             ELSE IF In("tools", r) THEN "yes" ELSE "no"

\* data['result']['tools']
ToolsOf(data) == Get("tools", Get("result", data))

\* tool['name'] raises KeyError
NameRaises(tool) == ~In("name", tool)
\* tool['name'], a str
NameOf(tool) == Get("name", tool).s

\* the bullets printed by `for tool in tools: print(tool['name'])` before the
\* loop ends or tool['name'] raises
RECURSIVE Bullets(_)
Bullets(items) ==
    IF items = <<>> \/ NameRaises(Head(items)) THEN <<>>
    ELSE <<OutBullet(NameOf(Head(items)))>> \o Bullets(Tail(items))

\* whether that loop raises: tools is not iterable, or an entry has no name
NamesLoopRaises(tools) ==
    \/ tools.t # "list"
    \/ \E i \in 1..Len(tools.items) : NameRaises(tools.items[i])

(***************************************************************************)
(* The state: the module globals, the listener thread's position and       *)
(* locals, the main thread's position and locals, and what left the        *)
(* process (the POSTs, the listener's output for the current event).       *)
(***************************************************************************)
VARIABLES
    SESSION_ID,            \* None or the session id (a string)
    STOP_EVENT,            \* STOP_EVENT.is_set()
    REQUEST_ID,            \* the JSON-RPC id counter
    EXPECTING_TOOL_NAMES,
    EXPECTING_TOOL_INFO,
    REQUESTED_TOOL_NAME,   \* None or the tool name to filter by
    lpc,                   \* listener: the line it is at
    event,                 \* listener: the event the stream yielded last
    idx,                   \* listener: position of the scan of line 54
    out,                   \* listener: what it printed for that event
    mpc,                   \* main thread: the line it is at
    cmd,                   \* main thread: method and params of the send_command call
    tool_name,             \* main thread: show_tool_info's argument, None outside it
    ret,                   \* what the send_command call of this turn of the menu returned
    posts,                 \* the ids carried by the requests.post calls made, in order
    lastPost,              \* the requests.post call of this turn: url, body, outcome
    params_input,          \* main thread: the parameters typed in this turn, None if none
    caller,                \* main thread: the function that called send_command
    inflight,              \* the server: the events it has still to send
    senders,               \* threads that call send_command side by side: their locals
    tab                    \* the call of MCPTestTab.execute_tool: inputs, trace, result

vars == << SESSION_ID, STOP_EVENT, REQUEST_ID, EXPECTING_TOOL_NAMES,
           EXPECTING_TOOL_INFO, REQUESTED_TOOL_NAME, lpc, event, idx, out,
           mpc, cmd, tool_name, ret, posts, lastPost, params_input, caller,
           inflight, senders, tab >>

globals == << SESSION_ID, STOP_EVENT, REQUEST_ID, EXPECTING_TOOL_NAMES,
              EXPECTING_TOOL_INFO, REQUESTED_TOOL_NAME >>
listenerLocals == << lpc, event, idx, out >>
mainLocals == << mpc, cmd, tool_name, ret, posts, lastPost, params_input, caller >>

NoCmd == [method |-> "-", params |-> JNull]
NoReturn == [t |-> "none_yet"]
Returned(v) == [t |-> "returned", v |-> v]
PyInt(n) == [isNone |-> FALSE, n |-> n]
NoPost == [session |-> None, body |-> JNull, ok |-> FALSE]
NoCaller == "-"

\* the threads that call send_command side by side, and the locals of one:
\* the line it is at, the id in its payload (line 87), current_request_id
\* (line 103), the value "REQUEST_ID += 1" loaded (line 104), what it returned,
\* and whether a call of it has run while another thread was in send_command
Threads == {1, 2}
IdleSender == [pc |-> "idle", payload_id |-> 0, current_request_id |-> 0,
               loaded |-> 0, ret |-> NoReturn, overlapped |-> FALSE]
NoSenders == [t \in Threads |-> IdleSender]

\* no call of MCPTestTab.execute_tool is under way
NoCall == [pc |-> "none"]

Init ==
    /\ SESSION_ID = None
    /\ STOP_EVENT = FALSE
    /\ REQUEST_ID = 1
    /\ EXPECTING_TOOL_NAMES = FALSE
    /\ EXPECTING_TOOL_INFO = FALSE
    /\ REQUESTED_TOOL_NAME = None
    /\ lpc = "connect"
    /\ event = NoEvent
    /\ idx = 0
    /\ out = <<>>
    /\ mpc = "wait"
    /\ cmd = NoCmd
    /\ tool_name = None
    /\ ret = NoReturn
    /\ posts = <<>>
    /\ lastPost = NoPost
    /\ params_input = None
    /\ caller = NoCaller
    /\ inflight = <<>>
    /\ senders = NoSenders
    /\ tab = NoCall

(***************************************************************************)
(* sse_listener                                                            *)
(***************************************************************************)
\* lines 125-127: the listener is a daemon thread, it runs until the process
\* ends (exit() of line 134, or the end of the main thread)
ProcessAlive == mpc \notin {"exited", "done"}

\* ConnectionError without line 73
ConnectionErrorNoStop ==
    /\ lpc' = "lost"
    /\ UNCHANGED << SESSION_ID, STOP_EVENT, REQUEST_ID, EXPECTING_TOOL_NAMES,
                    EXPECTING_TOOL_INFO, REQUESTED_TOOL_NAME, event, idx, out >>

\* lines 71-75: except RequestException: STOP_EVENT.set(); finally
ConnectionError ==
    /\ STOP_EVENT' = TRUE
    /\ lpc' = "lost"
    /\ UNCHANGED << SESSION_ID, REQUEST_ID, EXPECTING_TOOL_NAMES,
                    EXPECTING_TOOL_INFO, REQUESTED_TOOL_NAME, event, idx, out >>

\* an exception no except clause of sse_listener names (TypeError,
\* KeyError): the finally clause runs and the thread ends
Uncaught ==
    /\ lpc' = "crashed"
    /\ UNCHANGED event

\* line 25: SSEClient(SSE_URL) connects, or raises RequestException
Connect ==
    /\ ProcessAlive
    /\ lpc = "connect"
    /\ \/ /\ lpc' = "next"
          /\ UNCHANGED << globals, event, idx, out >>
       \/ ConnectionError
    /\ UNCHANGED mainLocals
    /\ UNCHANGED << inflight, senders, tab >>

\* NextEvent without the test of lines 27-28
NextEventIgnoresStop(e) ==
    /\ ProcessAlive
    /\ lpc = "next"
    /\ event' = e
    /\ IF e.text = <<>>
       THEN /\ out' = <<>>
            /\ UNCHANGED << SESSION_ID, lpc >>
       ELSE IF StartsWithPrefix(e.text)
       THEN /\ SESSION_ID' = Str(SessionIdOf(e.text))
            /\ out' = <<OutSession(SESSION_ID')>>
            /\ UNCHANGED lpc
       ELSE IF e.json = NotJSON
       THEN /\ out' = <<OutRaw(e.text)>>
            /\ UNCHANGED << SESSION_ID, lpc >>
       ELSE /\ lpc' = "l45"
            /\ out' = <<>>
            /\ UNCHANGED SESSION_ID
    /\ UNCHANGED << STOP_EVENT, REQUEST_ID, EXPECTING_TOOL_NAMES,
                    EXPECTING_TOOL_INFO, REQUESTED_TOOL_NAME, idx, mainLocals >>
    /\ UNCHANGED << inflight, senders, tab >>

\* NextEvent without the except clause of lines 69-70
NextEventNoCatch(e) ==
    /\ ProcessAlive
    /\ lpc = "next"
    /\ IF STOP_EVENT
       THEN /\ lpc' = "stopped"
            /\ UNCHANGED << SESSION_ID, event, out >>
       ELSE /\ event' = e
            /\ out' = <<>>
            /\ IF e.text = <<>>
               THEN UNCHANGED << SESSION_ID, lpc >>
               ELSE IF StartsWithPrefix(e.text)
               THEN SESSION_ID' = Str(SessionIdOf(e.text)) /\ UNCHANGED lpc
               ELSE IF e.json = NotJSON
               THEN lpc' = "crashed" /\ UNCHANGED SESSION_ID
               ELSE lpc' = "l45" /\ UNCHANGED SESSION_ID
    /\ UNCHANGED << STOP_EVENT, REQUEST_ID, EXPECTING_TOOL_NAMES,
                    EXPECTING_TOOL_INFO, REQUESTED_TOOL_NAME, idx, mainLocals >>
    /\ UNCHANGED << inflight, senders, tab >>

\* ReceiveEvent without the test of lines 27-28
ReceiveEventNoStopTest(e) ==
    /\ ProcessAlive
    /\ lpc = "next"
    /\ event' = e
    /\ IF e.text = <<>>
       THEN /\ out' = <<>>
            /\ UNCHANGED << SESSION_ID, lpc >>
       ELSE IF StartsWithPrefix(e.text)
       THEN /\ SESSION_ID' = Str(SessionIdOf(e.text))
            /\ out' = <<OutSession(SESSION_ID')>>
            /\ UNCHANGED lpc
       ELSE IF e.json = NotJSON
       THEN /\ out' = <<OutRaw(e.text)>>
            /\ UNCHANGED << SESSION_ID, lpc >>
       ELSE /\ lpc' = "l45"
            /\ out' = <<>>
            /\ UNCHANGED SESSION_ID
    /\ UNCHANGED << STOP_EVENT, REQUEST_ID, EXPECTING_TOOL_NAMES,
                    EXPECTING_TOOL_INFO, REQUESTED_TOOL_NAME, idx, mainLocals >>

\* lines 26-42 and 69-70: the stream yields an event; the loop ends if
\* STOP_EVENT is set, skips empty data, takes the session id of a bootstrap
\* event, prints what json.loads rejects, and goes on to line 45 with JSON
ReceiveEvent(e) ==
    /\ ProcessAlive
    /\ lpc = "next"
    /\ IF STOP_EVENT
       THEN /\ lpc' = "stopped"
            /\ UNCHANGED << SESSION_ID, event, out >>
       ELSE /\ event' = e
            /\ IF e.text = <<>>
               THEN /\ out' = <<>>
                    /\ UNCHANGED << SESSION_ID, lpc >>
               ELSE IF StartsWithPrefix(e.text)
               THEN /\ SESSION_ID' = Str(SessionIdOf(e.text))
                    /\ out' = <<OutSession(SESSION_ID')>>
                    /\ UNCHANGED lpc
               ELSE IF e.json = NotJSON
               THEN /\ out' = <<OutRaw(e.text)>>
                    /\ UNCHANGED << SESSION_ID, lpc >>
               ELSE /\ lpc' = "l45"
                    /\ out' = <<>>
                    /\ UNCHANGED SESSION_ID
    /\ UNCHANGED << STOP_EVENT, REQUEST_ID, EXPECTING_TOOL_NAMES,
                    EXPECTING_TOOL_INFO, REQUESTED_TOOL_NAME, idx, mainLocals >>

\* NextEvent without the skip of lines 31-32: empty data goes to json.loads,
\* which rejects it, and is printed as a raw event
NextEventEmptyAsRaw(e) ==
    /\ ProcessAlive
    /\ lpc = "next"
    /\ IF STOP_EVENT
       THEN /\ lpc' = "stopped"
            /\ UNCHANGED << SESSION_ID, event, out >>
       ELSE /\ event' = e
            /\ IF StartsWithPrefix(e.text)
               THEN /\ SESSION_ID' = Str(SessionIdOf(e.text))
                    /\ out' = <<OutSession(SESSION_ID')>>
                    /\ UNCHANGED lpc
               ELSE IF e.json = NotJSON
               THEN /\ out' = <<OutRaw(e.text)>>
                    /\ UNCHANGED << SESSION_ID, lpc >>
               ELSE /\ lpc' = "l45"
                    /\ out' = <<>>
                    /\ UNCHANGED SESSION_ID
    /\ UNCHANGED << STOP_EVENT, REQUEST_ID, EXPECTING_TOOL_NAMES,
                    EXPECTING_TOOL_INFO, REQUESTED_TOOL_NAME, idx, mainLocals >>
    /\ UNCHANGED << inflight, senders, tab >>

\* the stream yields an event, any the server may send
NextEvent(e) ==
    /\ ReceiveEvent(e)
    /\ UNCHANGED << inflight, senders, tab >>

\* line 26: the stream raises RequestException while the loop waits
ConnectionLost ==
    /\ ProcessAlive
    /\ lpc = "next"
    /\ ConnectionError
    /\ UNCHANGED mainLocals
    /\ UNCHANGED << inflight, senders, tab >>

\* CheckNames that also wants the event to carry the id of the latest request
CheckNamesById ==
    /\ ProcessAlive
    /\ lpc = "l45"
    /\ LET shape == IF EXPECTING_TOOL_NAMES THEN HasResultTools(event.json) ELSE "no"
           latest == In("id", event.json) /\ Get("id", event.json).n = REQUEST_ID - 1
       IN  CASE shape = "TypeError" -> Uncaught
             [] shape = "yes" /\ latest -> lpc' = "l46" /\ UNCHANGED event
             [] OTHER -> lpc' = "l52" /\ UNCHANGED event
    /\ UNCHANGED << globals, idx, out, mainLocals >>
    /\ UNCHANGED << inflight, senders, tab >>

\* CheckNames without the test of EXPECTING_TOOL_NAMES
CheckNamesUnconditional ==
    /\ ProcessAlive
    /\ lpc = "l45"
    /\ LET shape == HasResultTools(event.json)
       IN  CASE shape = "TypeError" -> Uncaught
             [] shape = "yes" -> lpc' = "l46" /\ UNCHANGED event
             [] OTHER -> lpc' = "l52" /\ UNCHANGED event
    /\ UNCHANGED << globals, idx, out, mainLocals >>
    /\ UNCHANGED << inflight, senders, tab >>

\* line 45: if EXPECTING_TOOL_NAMES and 'result' in data and 'tools' in ...
CheckNames ==
    /\ ProcessAlive
    /\ lpc = "l45"
    /\ LET shape == IF EXPECTING_TOOL_NAMES THEN HasResultTools(event.json) ELSE "no"
       IN  CASE shape = "TypeError" -> Uncaught
             [] shape = "yes" -> lpc' = "l46" /\ UNCHANGED event
             [] OTHER -> lpc' = "l52" /\ UNCHANGED event
    /\ UNCHANGED << globals, idx, out, mainLocals >>
    /\ UNCHANGED << inflight, senders, tab >>

\* PrintNames without line 50
PrintNamesKeepFlag ==
    /\ ProcessAlive
    /\ lpc = "l46"
    /\ LET tools == ToolsOf(event.json)
       IN  IF NamesLoopRaises(tools)
           THEN /\ out' = <<OutNamesHeader>>
                          \o (IF tools.t = "list" THEN Bullets(tools.items) ELSE <<>>)
                /\ Uncaught
           ELSE /\ out' = <<OutNamesHeader>> \o Bullets(tools.items)
                          \o <<OutTotal(Len(tools.items))>>
                /\ lpc' = "next"
                /\ UNCHANGED event
    /\ UNCHANGED << globals, idx, mainLocals >>
    /\ UNCHANGED << inflight, senders, tab >>

\* lines 46-50: print the names and the total, clear EXPECTING_TOOL_NAMES
PrintNames ==
    /\ ProcessAlive
    /\ lpc = "l46"
    /\ LET tools == ToolsOf(event.json)
       IN  IF NamesLoopRaises(tools)
           THEN /\ out' = <<OutNamesHeader>>
                          \o (IF tools.t = "list" THEN Bullets(tools.items) ELSE <<>>)
                /\ Uncaught
                /\ UNCHANGED EXPECTING_TOOL_NAMES
           ELSE /\ out' = <<OutNamesHeader>> \o Bullets(tools.items)
                          \o <<OutTotal(Len(tools.items))>>
                /\ EXPECTING_TOOL_NAMES' = FALSE
                /\ lpc' = "next"
                /\ UNCHANGED event
    /\ UNCHANGED << SESSION_ID, STOP_EVENT, REQUEST_ID, EXPECTING_TOOL_INFO,
                    REQUESTED_TOOL_NAME, idx, mainLocals >>
    /\ UNCHANGED << inflight, senders, tab >>

\* line 52: elif EXPECTING_TOOL_INFO and ...; lines 66-67: the else branch
CheckInfo ==
    /\ ProcessAlive
    /\ lpc = "l52"
    /\ LET shape == IF EXPECTING_TOOL_INFO THEN HasResultTools(event.json) ELSE "no"
       IN  CASE shape = "TypeError" ->
                  Uncaught /\ UNCHANGED << idx, out >>
             [] shape = "yes" ->
                  lpc' = "l54" /\ idx' = 1 /\ UNCHANGED << event, out >>
             [] OTHER ->
                  /\ out' = <<OutEvent(event.json)>>
                  /\ lpc' = "next"
                  /\ UNCHANGED << event, idx >>
    /\ UNCHANGED << globals, mainLocals >>
    /\ UNCHANGED << inflight, senders, tab >>

\* Scan without the break of line 59
ScanNoBreak ==
    /\ ProcessAlive
    /\ lpc = "l54"
    /\ LET tools == ToolsOf(event.json)
       IN  IF tools.t # "list"
           THEN Uncaught /\ UNCHANGED << idx, out >>
           ELSE IF idx > Len(tools.items)
           THEN /\ out' = IF out = <<>> THEN <<OutNotFound(REQUESTED_TOOL_NAME)>> ELSE out
                /\ lpc' = "l64"
                /\ idx' = 0
                /\ UNCHANGED event
           ELSE IF NameRaises(tools.items[idx])
           THEN Uncaught /\ UNCHANGED << idx, out >>
           ELSE /\ out' = IF Str(NameOf(tools.items[idx])) = REQUESTED_TOOL_NAME
                          THEN Append(out, OutInfo(REQUESTED_TOOL_NAME, tools.items[idx]))
                          ELSE out
                /\ idx' = idx + 1
                /\ UNCHANGED << lpc, event >>
    /\ UNCHANGED << globals, mainLocals >>
    /\ UNCHANGED << inflight, senders, tab >>

\* Scan that gives up at the first entry of another name
ScanFirstOnly ==
    /\ ProcessAlive
    /\ lpc = "l54"
    /\ LET tools == ToolsOf(event.json)
       IN  IF tools.t # "list"
           THEN Uncaught /\ UNCHANGED << idx, out >>
           ELSE IF idx > Len(tools.items)
                   \/ (~NameRaises(tools.items[idx])
                       /\ Str(NameOf(tools.items[idx])) # REQUESTED_TOOL_NAME)
           THEN /\ out' = <<OutNotFound(REQUESTED_TOOL_NAME)>>
                /\ lpc' = "l64"
                /\ idx' = 0
                /\ UNCHANGED event
           ELSE IF NameRaises(tools.items[idx])
           THEN Uncaught /\ UNCHANGED << idx, out >>
           ELSE /\ out' = <<OutInfo(REQUESTED_TOOL_NAME, tools.items[idx])>>
                /\ lpc' = "l64"
                /\ idx' = 0
                /\ UNCHANGED event
    /\ UNCHANGED << globals, mainLocals >>
    /\ UNCHANGED << inflight, senders, tab >>

\* lines 54-62: one turn of the scan, or its end with nothing found
Scan ==
    /\ ProcessAlive
    /\ lpc = "l54"
    /\ LET tools == ToolsOf(event.json)
       IN  IF tools.t # "list"
           THEN Uncaught /\ UNCHANGED << idx, out >>
           ELSE IF idx > Len(tools.items)
           THEN /\ out' = <<OutNotFound(REQUESTED_TOOL_NAME)>>
                /\ lpc' = "l64"
                /\ idx' = 0
                /\ UNCHANGED event
           ELSE IF NameRaises(tools.items[idx])
           THEN Uncaught /\ UNCHANGED << idx, out >>
           ELSE IF Str(NameOf(tools.items[idx])) = REQUESTED_TOOL_NAME
           THEN /\ out' = <<OutInfo(REQUESTED_TOOL_NAME, tools.items[idx])>>
                /\ lpc' = "l64"
                /\ idx' = 0
                /\ UNCHANGED event
           ELSE /\ idx' = idx + 1
                /\ UNCHANGED << lpc, event, out >>
    /\ UNCHANGED << globals, mainLocals >>
    /\ UNCHANGED << inflight, senders, tab >>

\* line 64
ClearInfo ==
    /\ ProcessAlive
    /\ lpc = "l64"
    /\ EXPECTING_TOOL_INFO' = FALSE
    /\ lpc' = "l65"
    /\ UNCHANGED << SESSION_ID, STOP_EVENT, REQUEST_ID, EXPECTING_TOOL_NAMES,
                    REQUESTED_TOOL_NAME, event, idx, out, mainLocals >>
    /\ UNCHANGED << inflight, senders, tab >>

\* line 65
ClearName ==
    /\ ProcessAlive
    /\ lpc = "l65"
    /\ REQUESTED_TOOL_NAME' = None
    /\ lpc' = "next"
    /\ UNCHANGED << SESSION_ID, STOP_EVENT, REQUEST_ID, EXPECTING_TOOL_NAMES,
                    EXPECTING_TOOL_INFO, event, idx, out, mainLocals >>
    /\ UNCHANGED << inflight, senders, tab >>

Listener ==
    \/ Connect
    \/ \E e \in Events : NextEvent(e)
    \/ ConnectionLost
    \/ CheckNames
    \/ PrintNames
    \/ CheckInfo
    \/ Scan
    \/ ClearInfo
    \/ ClearName

(***************************************************************************)
(* The main thread: __main__, send_command, list_tool_names,               *)
(* show_tool_info                                                          *)
(***************************************************************************)
JNum == [t |-> "num"]

\* what the user types at "Enter parameters as a JSON string": nothing,
\* blanks, a JSON object, a JSON number, text that is not JSON
ParamInputs ==
    { [text |-> <<>>, json |-> NotJSON],
      [text |-> <<" ">>, json |-> NotJSON],
      [text |-> <<"{", "}">>, json |-> JObj({<<"namespace", JStr("default")>>})],
      [text |-> <<"5">>, json |-> JNum],
      [text |-> <<"{">>, json |-> NotJSON] }

\* the tool names typed at "Enter the tool name to execute"
CallNames == {"pods_list"}

\* str.strip() of the typed text
RECURSIVE LStrip(_)
LStrip(text) ==
    IF text # <<>> /\ Head(text) = " " THEN LStrip(Tail(text)) ELSE text
RECURSIVE RStrip(_)
RStrip(text) ==
    IF text # <<>> /\ text[Len(text)] = " "
    THEN RStrip(SubSeq(text, 1, Len(text) - 1)) ELSE text
Strip(text) == RStrip(LStrip(text))

ListCmd == [method |-> "tools/list", params |-> JObj({})]

\* CallCmd with the tool name as the method and the arguments as the params
CallCmdFlat(name, arguments) ==
    [method |-> name, params |-> arguments]

\* lines 168-173: tool_params and the arguments of send_command
CallCmd(name, arguments) ==
    [method |-> "tools/call",
     params |-> JObj({<<"name", JStr(name)>>, <<"arguments", arguments>>})]

\* lines 85-90: the payload
Payload(id, c) ==
    [jsonrpc |-> "2.0", id |-> id, method |-> c.method, params |-> c.params]

\* lines 129-130: while not SESSION_ID and not STOP_EVENT.is_set(): sleep
WaitSession ==
    /\ mpc = "wait"
    /\ mpc' = IF ~Truthy(SESSION_ID) /\ ~STOP_EVENT THEN "wait" ELSE "l132"
    /\ UNCHANGED << globals, listenerLocals, cmd, tool_name, ret, posts, lastPost >>
    /\ UNCHANGED << params_input, caller, inflight, senders, tab >>

\* CheckSession without the exit of lines 132-134
CheckSessionMissing ==
    /\ mpc = "l132"
    /\ mpc' = "menu"
    /\ UNCHANGED << globals, listenerLocals, cmd, tool_name, ret, posts, lastPost >>
    /\ UNCHANGED << params_input, caller, inflight, senders, tab >>

\* lines 132-134: if not SESSION_ID: exit()
CheckSession ==
    /\ mpc = "l132"
    /\ mpc' = IF ~Truthy(SESSION_ID) THEN "exited" ELSE "menu"
    /\ UNCHANGED << globals, listenerLocals, cmd, tool_name, ret, posts, lastPost >>
    /\ UNCHANGED << params_input, caller, inflight, senders, tab >>

\* Menu as `while True`
MenuForever ==
    /\ mpc = "menu"
    /\ mpc' = "input"
    /\ ret' = NoReturn
    /\ lastPost' = NoPost
    /\ UNCHANGED << globals, listenerLocals, cmd, tool_name, posts >>
    /\ params_input' = None
    /\ UNCHANGED << caller, inflight, senders, tab >>

\* line 136: while not STOP_EVENT.is_set()
Menu ==
    /\ mpc = "menu"
    /\ mpc' = IF STOP_EVENT THEN "l180" ELSE "input"
    /\ ret' = NoReturn
    /\ lastPost' = NoPost
    /\ UNCHANGED << globals, listenerLocals, cmd, tool_name, posts >>
    /\ params_input' = None
    /\ UNCHANGED << caller, inflight, senders, tab >>

\* Finish with listener_thread.join(): no timeout
FinishJoinsForever ==
    /\ mpc = "l180"
    /\ lpc \in {"stopped", "lost", "ended", "crashed"}
    /\ mpc' = "done"
    /\ UNCHANGED << globals, listenerLocals, cmd, tool_name, ret, posts, lastPost >>
    /\ UNCHANGED << params_input, caller, inflight, senders, tab >>

\* lines 180-181: listener_thread.join(timeout=5) returns, when the listener
\* has ended or after five seconds, and the process ends
Finish ==
    /\ mpc = "l180"
    /\ mpc' = "done"
    /\ UNCHANGED << globals, listenerLocals, cmd, tool_name, ret, posts, lastPost >>
    /\ UNCHANGED << params_input, caller, inflight, senders, tab >>

\* the run is cut after MaxSends POSTs
MayCall == Len(posts) < MaxSends

\* lines 146-147: choice "1"
ChooseListAll ==
    /\ mpc = "input"
    /\ MayCall
    /\ cmd' = ListCmd
    /\ ret' = NoReturn
    /\ mpc' = "l81"
    /\ UNCHANGED << globals, listenerLocals, tool_name, posts, lastPost >>
    /\ caller' = "main"
    /\ UNCHANGED << params_input, inflight, senders, tab >>

\* ChooseListNames with line 112 left for after the send_command call
ChooseListNamesLate ==
    /\ mpc = "input"
    /\ MayCall
    /\ cmd' = ListCmd
    /\ ret' = NoReturn
    /\ mpc' = "l81"
    /\ UNCHANGED << globals, listenerLocals, tool_name, posts, lastPost >>
    /\ caller' = "list_tool_names"
    /\ UNCHANGED << params_input, inflight, senders, tab >>

\* lines 148-149 and 108-113: choice "2", list_tool_names up to its call
\* of send_command
ChooseListNames ==
    /\ mpc = "input"
    /\ MayCall
    /\ EXPECTING_TOOL_NAMES' = TRUE
    /\ cmd' = ListCmd
    /\ ret' = NoReturn
    /\ mpc' = "l81"
    /\ UNCHANGED << SESSION_ID, STOP_EVENT, REQUEST_ID, EXPECTING_TOOL_INFO,
                    REQUESTED_TOOL_NAME, listenerLocals, tool_name, posts, lastPost >>
    /\ caller' = "list_tool_names"
    /\ UNCHANGED << params_input, inflight, senders, tab >>

\* lines 150-152 and 115-119: choice "3", show_tool_info up to line 119
ChooseToolInfo(n) ==
    /\ mpc = "input"
    /\ MayCall
    /\ EXPECTING_TOOL_INFO' = TRUE
    /\ tool_name' = Str(n)
    /\ mpc' = "l120"
    /\ UNCHANGED << SESSION_ID, STOP_EVENT, REQUEST_ID, EXPECTING_TOOL_NAMES,
                    REQUESTED_TOOL_NAME, listenerLocals, cmd, ret, posts, lastPost >>
    /\ caller' = "show_tool_info"
    /\ UNCHANGED << params_input, inflight, senders, tab >>

\* lines 120-121: REQUESTED_TOOL_NAME = tool_name, then send_command
StoreToolName ==
    /\ mpc = "l120"
    /\ REQUESTED_TOOL_NAME' = tool_name
    /\ cmd' = ListCmd
    /\ ret' = NoReturn
    /\ mpc' = "l81"
    /\ UNCHANGED << SESSION_ID, STOP_EVENT, REQUEST_ID, EXPECTING_TOOL_NAMES,
                    EXPECTING_TOOL_INFO, listenerLocals, tool_name, posts, lastPost >>
    /\ UNCHANGED << params_input, caller, inflight, senders, tab >>

\* ChooseCall that sends empty arguments when the text is not JSON
ChooseCallLenient(n, p) ==
    /\ mpc = "input"
    /\ MayCall
    /\ params_input' = p
    /\ cmd' = CallCmd(n, IF p.json = NotJSON THEN JObj({}) ELSE p.json)
    /\ ret' = NoReturn
    /\ caller' = "main"
    /\ mpc' = "l81"
    /\ UNCHANGED << globals, listenerLocals, tool_name, posts, lastPost, inflight,
                    senders, tab >>

\* lines 153-173: choice "4"
ChooseCall(n, p) ==
    /\ mpc = "input"
    /\ MayCall
    /\ params_input' = p
    /\ IF Strip(p.text) = <<>>
       THEN /\ cmd' = CallCmd(n, JObj({}))
            /\ ret' = NoReturn
            /\ caller' = "main"
            /\ mpc' = "l81"
       ELSE IF p.json = NotJSON
       THEN /\ mpc' = "menu"
            /\ UNCHANGED << cmd, ret, caller >>
       ELSE /\ cmd' = CallCmd(n, p.json)
            /\ ret' = NoReturn
            /\ caller' = "main"
            /\ mpc' = "l81"
    /\ UNCHANGED << globals, listenerLocals, tool_name, posts, lastPost, inflight,
                    senders, tab >>

\* lines 174-176: choice "5"
ChooseExit ==
    /\ mpc = "input"
    /\ STOP_EVENT' = TRUE
    /\ mpc' = "menu"
    /\ UNCHANGED << SESSION_ID, REQUEST_ID, EXPECTING_TOOL_NAMES, EXPECTING_TOOL_INFO,
                    REQUESTED_TOOL_NAME, listenerLocals, cmd, tool_name, ret, posts,
                    lastPost >>
    /\ UNCHANGED << params_input, caller, inflight, senders, tab >>

\* lines 177-178: any other choice
ChooseInvalid ==
    /\ mpc = "input"
    /\ mpc' = "menu"
    /\ UNCHANGED << globals, listenerLocals, cmd, tool_name, ret, posts, lastPost >>
    /\ UNCHANGED << params_input, caller, inflight, senders, tab >>

\* SendCheck that forgets the session when it rejects a call
SendCheckClearsSession ==
    /\ mpc = "l81"
    /\ IF ~Truthy(SESSION_ID)
       THEN /\ ret' = Returned(None)
            /\ cmd' = NoCmd
            /\ tool_name' = None
            /\ caller' = NoCaller
            /\ SESSION_ID' = None
            /\ mpc' = "menu"
       ELSE /\ mpc' = "l85"
            /\ UNCHANGED << ret, cmd, tool_name, caller, SESSION_ID >>
    /\ UNCHANGED << STOP_EVENT, REQUEST_ID, EXPECTING_TOOL_NAMES, EXPECTING_TOOL_INFO,
                    REQUESTED_TOOL_NAME, listenerLocals, posts, lastPost,
                    params_input, inflight, senders, tab >>

\* SendCheck without the test of line 81
SendCheckMissing ==
    /\ mpc = "l81"
    /\ mpc' = "l85"
    /\ UNCHANGED << globals, listenerLocals, cmd, tool_name, ret, posts, lastPost >>
    /\ UNCHANGED << params_input, caller, inflight, senders, tab >>

\* lines 81-83: if not SESSION_ID: return None
SendCheck ==
    /\ mpc = "l81"
    /\ IF ~Truthy(SESSION_ID)
       THEN /\ ret' = Returned(None)
            /\ cmd' = NoCmd
            /\ tool_name' = None
            /\ caller' = NoCaller
            /\ mpc' = "menu"
       ELSE /\ mpc' = "l85"
            /\ UNCHANGED << ret, cmd, tool_name, caller >>
    /\ UNCHANGED << globals, listenerLocals, posts, lastPost, params_input, inflight,
                    senders, tab >>

\* SendPost with the counter advanced only when the POST succeeds
SendPostRollback(ok) ==
    /\ mpc = "l85"
    /\ lastPost' = [session |-> SESSION_ID, body |-> Payload(REQUEST_ID, cmd), ok |-> ok]
    /\ posts' = Append(posts, REQUEST_ID)
    /\ ret' = Returned(PyInt(REQUEST_ID))
    /\ REQUEST_ID' = IF ok THEN REQUEST_ID + 1 ELSE REQUEST_ID
    /\ cmd' = NoCmd
    /\ tool_name' = None
    /\ caller' = NoCaller
    /\ mpc' = "menu"
    /\ UNCHANGED << SESSION_ID, STOP_EVENT, EXPECTING_TOOL_NAMES, EXPECTING_TOOL_INFO,
                    REQUESTED_TOOL_NAME, listenerLocals, params_input, inflight, senders, tab >>

\* Post that returns None from the except clause, before line 103
PostFailureReturns(ok) ==
    /\ mpc = "l85"
    /\ lastPost' = [session |-> SESSION_ID, body |-> Payload(REQUEST_ID, cmd), ok |-> ok]
    /\ posts' = Append(posts, REQUEST_ID)
    /\ ret' = IF ok THEN Returned(PyInt(REQUEST_ID)) ELSE Returned(None)
    /\ REQUEST_ID' = IF ok THEN REQUEST_ID + 1 ELSE REQUEST_ID
    /\ cmd' = NoCmd
    /\ tool_name' = None
    /\ caller' = NoCaller
    /\ mpc' = "menu"
    /\ UNCHANGED << SESSION_ID, STOP_EVENT, EXPECTING_TOOL_NAMES, EXPECTING_TOOL_INFO,
                    REQUESTED_TOOL_NAME, listenerLocals, params_input >>

\* Post that tries once more when the POST fails
PostRetry(ok) ==
    /\ mpc = "l85"
    /\ lastPost' = [session |-> SESSION_ID, body |-> Payload(REQUEST_ID, cmd), ok |-> ok]
    /\ posts' = IF ok THEN Append(posts, REQUEST_ID)
                ELSE Append(Append(posts, REQUEST_ID), REQUEST_ID)
    /\ ret' = Returned(PyInt(REQUEST_ID))
    /\ REQUEST_ID' = REQUEST_ID + 1
    /\ cmd' = NoCmd
    /\ tool_name' = None
    /\ caller' = NoCaller
    /\ mpc' = "menu"
    /\ UNCHANGED << SESSION_ID, STOP_EVENT, EXPECTING_TOOL_NAMES, EXPECTING_TOOL_INFO,
                    REQUESTED_TOOL_NAME, listenerLocals, params_input >>

\* lines 85-105: build the payload, POST it (the POST succeeds or raises
\* RequestException, which is caught), advance the counter, return the id
Post(ok) ==
    /\ mpc = "l85"
    /\ lastPost' = [session |-> SESSION_ID, body |-> Payload(REQUEST_ID, cmd), ok |-> ok]
    /\ posts' = Append(posts, REQUEST_ID)
    /\ ret' = Returned(PyInt(REQUEST_ID))
    /\ REQUEST_ID' = REQUEST_ID + 1
    /\ cmd' = NoCmd
    /\ tool_name' = None
    /\ caller' = NoCaller
    /\ mpc' = "menu"
    /\ UNCHANGED << SESSION_ID, STOP_EVENT, EXPECTING_TOOL_NAMES, EXPECTING_TOOL_INFO,
                    REQUESTED_TOOL_NAME, listenerLocals, params_input >>

\* send_command's POST when the server's answers are left open
SendPost(ok) ==
    /\ Post(ok)
    /\ UNCHANGED << inflight, senders, tab >>

Main ==
    \/ WaitSession
    \/ CheckSession
    \/ Menu
    \/ ChooseListAll
    \/ ChooseListNames
    \/ \E n \in ToolNames : ChooseToolInfo(n)
    \/ StoreToolName
    \/ \E n \in CallNames, p \in ParamInputs : ChooseCall(n, p)
    \/ ChooseExit
    \/ ChooseInvalid
    \/ Finish
    \/ SendCheck
    \/ \E ok \in BOOLEAN : SendPost(ok)

Next == Listener \/ Main

Spec == Init /\ [][Next]_vars

(***************************************************************************)
(* The same program with a server that opens the stream with one bootstrap *)
(* event and answers each request it receives with one event carrying the *)
(* id of the request, in the order of the requests.                        *)
(***************************************************************************)
JId(n) == [t |-> "num", n |-> n]

\* the tools the server lists
Catalogue == JList(<<Tool("a", "m1"), Tool("b", "m1")>>)

\* the answer to the request of id `id`: result.tools for tools/list, a
\* content result for tools/call; `by` remembers the function that sent the
\* request, for the properties only
Answer(id, c, by) ==
    [text |-> <<"{">>,
     json |-> JObj({<<"id", JId(id)>>,
                    <<"result", IF c.method = "tools/list"
                                THEN JObj({<<"tools", Catalogue>>})
                                ELSE JObj({<<"content", JList(<<>>)>>})>>}),
     by |-> by]

\* lines 26-39: the first event of the stream, the bootstrap event
Hello ==
    /\ SESSION_ID = None
    /\ ReceiveEvent(BootEvent(<<"a">>))
    /\ UNCHANGED << inflight, senders, tab >>

\* lines 26-42: the stream yields the next answer of the server
Deliver ==
    /\ inflight # <<>>
    /\ ReceiveEvent(Head(inflight))
    /\ inflight' = Tail(inflight)
    /\ UNCHANGED << senders, tab >>

\* lines 85-105: send_command's POST; the server answers a request it gets
SendPostServed(ok) ==
    /\ inflight' = IF ok THEN Append(inflight, Answer(REQUEST_ID, cmd, caller))
                   ELSE inflight
    /\ Post(ok)
    /\ UNCHANGED << senders, tab >>

ListenerServed ==
    \/ Connect
    \/ Hello
    \/ Deliver
    \/ ConnectionLost
    \/ CheckNames
    \/ PrintNames
    \/ CheckInfo
    \/ Scan
    \/ ClearInfo
    \/ ClearName

MainServed ==
    \/ WaitSession
    \/ CheckSession
    \/ Menu
    \/ ChooseListAll
    \/ ChooseListNames
    \/ \E n \in ToolNames : ChooseToolInfo(n)
    \/ StoreToolName
    \/ \E n \in CallNames, p \in ParamInputs : ChooseCall(n, p)
    \/ ChooseExit
    \/ ChooseInvalid
    \/ Finish
    \/ SendCheck
    \/ \E ok \in BOOLEAN : SendPostServed(ok)

NextServed == ListenerServed \/ MainServed

SpecServed == Init /\ [][NextServed]_vars

(***************************************************************************)
(* That server and a user who only ever types choice 2 (and 5): the tool-  *)
(* info branch of the listener is never entered.                           *)
(***************************************************************************)
ListenerNamesOnly ==
    \/ Connect
    \/ Hello
    \/ Deliver
    \/ ConnectionLost
    \/ CheckNames
    \/ PrintNames
    \/ CheckInfo

MainNamesOnly ==
    \/ WaitSession
    \/ CheckSession
    \/ Menu
    \/ ChooseListNames
    \/ ChooseExit
    \/ Finish
    \/ SendCheck
    \/ \E ok \in BOOLEAN : SendPostServed(ok)

NextNamesOnly == ListenerNamesOnly \/ MainNamesOnly

SpecNamesOnly == Init /\ [][NextNamesOnly]_vars

(***************************************************************************)
(* Properties                                                              *)
(***************************************************************************)
\* a step of the listener (or no step at all): the main thread stays put
ListenerStep == mpc' = mpc
\* a step of the main thread
MainStep == mpc' # mpc

\* the tools/list responses whose entries all carry a name
GoodToolsData ==
    TwinToolsData \cup { ToolsResult(JList(ts)) : ts \in SeqsUpTo(ToolEntries, MaxTools) }
NamedEntries(ev) == ToolsOf(ev.json).items
EntryName(tool) == (CHOOSE p \in tool.kv : p[1] = "name")[2].s

\* the id carried by the request posted before the latest one, 0 if none
PreviousId == IF Len(posts) = 0 THEN 0 ELSE posts[Len(posts)]

\* C1: the ids carried by the requests the command thread posts are 1, 2,
\* 3, ... in call order, whether the POSTs succeed or fail: the i-th POST
\* carries id i, which is also the id in the body of the POST just made.
C1_IdsInCallOrder ==
    /\ \A i \in 1..Len(posts) : posts[i] = i
    /\ lastPost # NoPost => lastPost.body.id = Len(posts)

\* C1: a second POST has been made and it failed
C1_Witness == Len(posts) >= 2 /\ lastPost # NoPost /\ ~lastPost.ok

\* C2: a send_command call that finds no session id (None or empty) returns
\* None and posts nothing, and no request is posted while SESSION_ID is None.
C2_NoSessionNoPost ==
    [][ /\ (MainStep /\ mpc = "l81" /\ ~Truthy(SESSION_ID))
            => /\ ret' = Returned(None)
               /\ posts' = posts
               /\ lastPost' = NoPost
               /\ REQUEST_ID' = REQUEST_ID
               /\ mpc' = "menu"
        /\ posts' # posts => ~SESSION_ID.isNone ]_vars

\* C2: a call has been rejected for want of a session id
C2_Witness == ret = Returned(None) /\ lastPost = NoPost /\ ~Truthy(SESSION_ID)

\* C3: once a bootstrap event has set the session id (to a non-empty
\* value), no later event changes it.
C3_SessionSetOnce == [][ Truthy(SESSION_ID) => SESSION_ID' = SESSION_ID ]_vars

\* C4: the client never expects tool names and tool info at the same time.
C4_SingleIntent == ~(EXPECTING_TOOL_NAMES /\ EXPECTING_TOOL_INFO)

\* C5: while show_tool_info(x) is the operation that set the intent last
\* (the main thread is inside it, past line 120), a result.tools event that
\* the listener routes is taken as the answer to show_tool_info(x), not as a
\* names listing.
C5_LastWriterWins ==
    [][ ( /\ ListenerStep
          /\ lpc = "l45" /\ lpc' # "l45"
          /\ event.json \in GoodToolsData
          /\ mpc \in {"l81", "l85"}
          /\ tool_name # None
          /\ EXPECTING_TOOL_INFO /\ REQUESTED_TOOL_NAME = tool_name )
        => lpc' = "l52" ]_vars

\* C6: with only EXPECTING_TOOL_NAMES set, a result.tools event of n named
\* entries is routed to the names listing, which prints the header, the n
\* names in array order and the total n, clears the flag (so that no intent
\* is pending) and returns to the receive loop.
C6_NamesListing ==
    [][ ListenerStep =>
        /\ (lpc = "l45" /\ lpc' # "l45" /\ EXPECTING_TOOL_NAMES
              /\ event.json \in GoodToolsData)
            => lpc' = "l46"
        /\ (lpc = "l46" /\ lpc' # "l46" /\ ~EXPECTING_TOOL_INFO
              /\ event.json \in GoodToolsData)
            => LET items == NamedEntries(event)
                   n == Len(items)
               IN  /\ Len(out') = n + 2
                   /\ out'[1] = OutNamesHeader
                   /\ \A i \in 1..n : out'[i + 1] = OutBullet(EntryName(items[i]))
                   /\ out'[n + 2] = OutTotal(n)
                   /\ ~EXPECTING_TOOL_NAMES' /\ ~EXPECTING_TOOL_INFO'
                   /\ lpc' = "next" ]_vars

\* C6: the names a and b and the total 2 have been printed, no intent is left
C6_Witness ==
    /\ ProcessAlive
    /\ lpc = "next"
    /\ out = <<OutNamesHeader, OutBullet("a"), OutBullet("b"), OutTotal(2)>>
    /\ ~EXPECTING_TOOL_NAMES /\ ~EXPECTING_TOOL_INFO

\* C7: with only EXPECTING_TOOL_INFO set, a result.tools event of named
\* entries is routed to the scan; the scan passes every entry whose name is
\* not the requested one, at the end of the array prints not-found for the
\* requested name, and then the listener clears EXPECTING_TOOL_INFO, clears
\* REQUESTED_TOOL_NAME and returns to the receive loop.
C7_NotFound ==
    [][ (ListenerStep /\ event.json \in GoodToolsData) =>
        LET items == NamedEntries(event) IN
        /\ (lpc = "l45" /\ lpc' # "l45" /\ ~EXPECTING_TOOL_NAMES) => lpc' = "l52"
        /\ (lpc = "l52" /\ lpc' # "l52" /\ EXPECTING_TOOL_INFO)
            => lpc' = "l54" /\ idx' = 1
        /\ (lpc = "l54" /\ idx \in 1..Len(items) /\ <<lpc, idx>>' # <<lpc, idx>>
              /\ Str(EntryName(items[idx])) # REQUESTED_TOOL_NAME)
            => lpc' = "l54" /\ idx' = idx + 1 /\ out' = <<>>
        /\ (lpc = "l54" /\ idx > Len(items) /\ lpc' # "l54")
            => lpc' = "l64" /\ out' = <<OutNotFound(REQUESTED_TOOL_NAME)>>
        /\ (lpc = "l64" /\ lpc' # "l64")
            => lpc' = "l65" /\ ~EXPECTING_TOOL_INFO' /\ out' = out
        /\ (lpc = "l65" /\ lpc' # "l65")
            => lpc' = "next" /\ REQUESTED_TOOL_NAME' = None /\ out' = out ]_vars

\* C7: tool a was looked up in a listing of tool b alone, not-found was
\* printed, the intent and the name are cleared and the loop waits again
C7_Witness ==
    /\ ProcessAlive
    /\ lpc = "next"
    /\ event = JsonEvent(ToolsResult(JList(<<Tool("b", "m1")>>)))
    /\ out = <<OutNotFound(Str("a"))>>
    /\ ~EXPECTING_TOOL_INFO /\ ~EXPECTING_TOOL_NAMES
    /\ REQUESTED_TOOL_NAME = None

\* C8: an event whose data is not JSON is printed as raw text; the session
\* id, the two flags and the requested name stay as they are and the
\* listener goes on waiting for the next event.
C8_MalformedShownRaw ==
    [][ ( /\ ListenerStep
          /\ lpc = "next" /\ ~STOP_EVENT /\ ~STOP_EVENT'
          /\ event' = RawEvent )
        => /\ out' = <<OutRaw(RawEvent.text)>>
           /\ lpc' = "next"
           /\ SESSION_ID' = SESSION_ID
           /\ EXPECTING_TOOL_NAMES' = EXPECTING_TOOL_NAMES
           /\ EXPECTING_TOOL_INFO' = EXPECTING_TOOL_INFO
           /\ REQUESTED_TOOL_NAME' = REQUESTED_TOOL_NAME ]_vars

\* C8: malformed data was printed raw while a names listing is expected,
\* and the listener waits for the next event
C8_Witness ==
    /\ ProcessAlive
    /\ lpc = "next"
    /\ event = RawEvent
    /\ out = <<OutRaw(RawEvent.text)>>
    /\ EXPECTING_TOOL_NAMES
    /\ Truthy(SESSION_ID)

\* C9: no event whose data parses as JSON ends the receive loop.
C9_LoopSurvivesJson == lpc # "crashed"

\* C10: menu choice 4 calls send_command("tools/call", {name, arguments})
\* with the name typed; when that call reaches the POST it makes exactly one
\* POST, whose body is {jsonrpc: "2.0", id, method: "tools/call", params}
\* with those params and the id one greater than that of the request posted
\* before; no other step posts.
C10_ToolCallPost ==
    [][ /\ posts' # posts => (mpc = "l85" /\ Len(posts') = Len(posts) + 1)
        /\ (MainStep /\ mpc = "input" /\ mpc' = "l81" /\ cmd' # ListCmd)
            => /\ cmd'.method = "tools/call"
               /\ cmd'.params.t = "obj"
               /\ {p[1] : p \in cmd'.params.kv} = {"name", "arguments"}
               /\ \E n \in CallNames : <<"name", JStr(n)>> \in cmd'.params.kv
        /\ (MainStep /\ mpc = "l85" /\ cmd.method = "tools/call")
            => /\ Len(posts') = Len(posts) + 1
               /\ posts'[Len(posts')] = PreviousId + 1
               /\ lastPost'.body =
                     [jsonrpc |-> "2.0", id |-> PreviousId + 1,
                      method |-> "tools/call", params |-> cmd.params]
               /\ cmd.params.t = "obj"
               /\ {p[1] : p \in cmd.params.kv} = {"name", "arguments"} ]_vars

\* C10: pods_list was called with {"namespace": "default"} as the second
\* request
C10_Witness ==
    /\ posts = <<1, 2>>
    /\ lastPost.body =
          [jsonrpc |-> "2.0", id |-> 2, method |-> "tools/call",
           params |-> JObj({<<"name", JStr("pods_list")>>,
                            <<"arguments", JObj({<<"namespace", JStr("default")>>})>>})]

\* C11: once the listener has processed the bootstrap event carrying the
\* session id v, a POST that send_command makes goes to sessionId=v, and the
\* first POST of the process carries id 1.
C11_PostsToBootstrapSession ==
    [][ (MainStep /\ mpc = "l85" /\ lpc = "next"
         /\ \E v \in BootValues : event = BootEvent(v))
        => /\ \A v \in BootValues : event = BootEvent(v) => lastPost'.session = Str(v)
           /\ posts = <<>> => lastPost'.body.id = 1 ]_vars

\* C12: a connection error ends the listener with STOP_EVENT set, and the
\* listener never connects again: once it has ended this way it takes no
\* event, prints nothing, and changes neither the session id nor a flag.
C12_ConnectionErrorStops ==
    [][ /\ (lpc # "lost" /\ lpc' = "lost") => (STOP_EVENT' /\ lpc \in {"connect", "next"})
        /\ lpc' = "connect" => lpc = "connect"
        /\ lpc = "lost"
           => /\ lpc' = "lost"
              /\ UNCHANGED << event, idx, out, SESSION_ID >>
              /\ EXPECTING_TOOL_NAMES => EXPECTING_TOOL_NAMES'
              /\ EXPECTING_TOOL_INFO => EXPECTING_TOOL_INFO' ]_vars
\* the connection is lost after a session was set up and a JSON event
\* handled, while the shell waits for a choice
C12_Witness ==
    /\ lpc = "lost" /\ STOP_EVENT /\ mpc = "input"
    /\ Truthy(SESSION_ID) /\ event.json # NotJSON

\* C13: a send_command that runs after a connection error ended the
\* listener is rejected: it returns None and makes no POST.
C13_RejectedAfterLoss ==
    [][ (MainStep /\ mpc = "l81" /\ lpc = "lost")
        => (ret' = Returned(None) /\ posts' = posts /\ mpc' = "menu") ]_vars

\* C14 as stated: after a connection error ended the listener, the shell's
\* loop test keeps leading to the menu and the next choice.
C14_ShellKeepsRunning ==
    [][ (MainStep /\ mpc = "menu" /\ lpc = "lost") => mpc' = "input" ]_vars
\* C14 amended: a connection error ends the listener with STOP_EVENT set, so
\* the shell's next loop test leaves the command loop, and the main thread
\* goes on to the join of line 180 and ends.
C14_ShellEndsAfterLoss ==
    [][ /\ lpc' = "lost" => STOP_EVENT'
        /\ (MainStep /\ mpc = "menu" /\ lpc = "lost") => mpc' = "l180"
        /\ (MainStep /\ mpc = "l180") => mpc' = "done" ]_vars
\* the main thread has ended after a connection loss; the command typed
\* while the listener was already gone was still posted
C14_Witness ==
    /\ lpc = "lost" /\ mpc = "done" /\ Truthy(SESSION_ID) /\ posts = <<1>>

\* C15: while no session id has been published the shell is in its startup
\* wait or has exited: it has read no choice, called no send_command and
\* posted nothing; with STOP_EVENT set and no session id it never reaches
\* the menu.
C15_NoCommandBeforeSession ==
    /\ SESSION_ID = None
       => /\ mpc \in {"wait", "l132", "exited"}
          /\ posts = <<>> /\ cmd = NoCmd /\ params_input = None /\ caller = NoCaller
    /\ mpc = "exited" => (posts = <<>> /\ cmd = NoCmd)
\* the connection failed before any session id: the shell has exited
C15_Witness ==
    /\ mpc = "exited" /\ STOP_EVENT /\ SESSION_ID = None /\ lpc = "lost"

\* the text typed as parameters is neither blank nor JSON
InvalidParams(p) == p # None /\ Strip(p.text) # <<>> /\ p.json = NotJSON

\* C16: when the parameters typed at choice 4 are not JSON (and not blank),
\* the shell goes back to the menu: no send_command call, no POST, and
\* REQUEST_ID, the two flags and the requested name keep their values.
C16_InvalidJsonRejected ==
    [][ (MainStep /\ mpc = "input" /\ InvalidParams(params_input'))
        => /\ mpc' = "menu"
           /\ UNCHANGED << posts, lastPost, cmd, caller, REQUEST_ID, SESSION_ID,
                           EXPECTING_TOOL_NAMES, EXPECTING_TOOL_INFO,
                           REQUESTED_TOOL_NAME >> ]_vars
\* invalid parameters were typed while a tool-info intent was pending and
\* one request had been posted
C16_Witness ==
    /\ mpc = "menu" /\ InvalidParams(params_input)
    /\ EXPECTING_TOOL_INFO /\ REQUEST_ID = 2 /\ posts = <<1>>

\* C17: a send_command call that passes the test of line 81 calls
\* requests.post exactly once, whether the POST succeeds or fails, and then
\* returns; a rejected call makes no POST; nothing else posts.
C17_OnePostPerCall ==
    [][ /\ posts' # posts => mpc = "l85"
        /\ (MainStep /\ mpc = "l85")
           => /\ Len(posts') = Len(posts) + 1
              /\ lastPost' # NoPost
              /\ ret'.t = "returned"
              /\ mpc' = "menu"
        /\ (MainStep /\ mpc = "l81")
           => /\ posts' = posts
              /\ mpc' = IF Truthy(SESSION_ID) THEN "l85" ELSE "menu" ]_vars
\* the only POST of the run failed and the call has returned its id
C17_Witness ==
    /\ mpc = "menu" /\ posts = <<1>> /\ lastPost # NoPost /\ ~lastPost.ok
    /\ ret = Returned(PyInt(1))

\* C18: a JSON event without result.tools goes through both tests of the
\* router and is printed by the else branch, and the two flags and the
\* requested name keep their values, whatever they are.
C18_OtherJsonKeepsIntent ==
    [][ (ListenerStep /\ lpc \in {"l45", "l52"} /\ lpc' # lpc /\ event.json \in OtherData)
        => /\ lpc = "l45" => lpc' = "l52"
           /\ lpc = "l52" => (lpc' = "next" /\ out' = <<OutEvent(event.json)>>)
           /\ UNCHANGED << EXPECTING_TOOL_NAMES, EXPECTING_TOOL_INFO,
                           REQUESTED_TOOL_NAME >> ]_vars

\* C19: with EXPECTING_TOOL_NAMES false the test of line 45 fails, and with
\* EXPECTING_TOOL_INFO false an event carrying result.tools is printed whole
\* by the else branch; the session id, REQUEST_ID, the flags and the
\* requested name keep their values.
C19_NoIntentPrintsRaw ==
    [][ /\ (ListenerStep /\ lpc = "l45" /\ lpc' # lpc /\ ~EXPECTING_TOOL_NAMES)
           => (lpc' = "l52" /\ UNCHANGED << globals, out >>)
        /\ (ListenerStep /\ lpc = "l52" /\ lpc' # lpc /\ ~EXPECTING_TOOL_INFO
            /\ HasResultTools(event.json) = "yes")
           => /\ out' = <<OutEvent(event.json)>>
              /\ lpc' = "next"
              /\ UNCHANGED globals ]_vars
\* a tools listing was printed whole with no intent pending, after a request
C19_Witness ==
    /\ lpc = "next" /\ event.json \in GoodToolsData /\ out = <<OutEvent(event.json)>>
    /\ ~EXPECTING_TOOL_NAMES /\ ~EXPECTING_TOOL_INFO /\ REQUESTED_TOOL_NAME = None
    /\ Truthy(SESSION_ID) /\ posts # <<>>

\* the answer to a tools/list request that main sent itself (choice 1), and
\* to one that list_tool_names sent
RawAnswer(ev) == ev.by = "main" /\ HasResultTools(ev.json) = "yes"
NamesAnswer(ev) == ev.by = "list_tool_names"

\* C20: the router never looks at the id of an event. The answer to a
\* tools/list request sent with no intent (choice 1) that arrives while
\* EXPECTING_TOOL_NAMES is set is printed as the names listing and clears the
\* flag; the answer to the request list_tool_names sent that arrives with
\* no flag set is printed whole by the else branch.
C20_RoutedByIntentNotId ==
    [][ /\ (ListenerStep /\ lpc = "l45" /\ lpc' # lpc /\ RawAnswer(event)
            /\ EXPECTING_TOOL_NAMES)
           => lpc' = "l46"
        /\ (ListenerStep /\ lpc = "l46" /\ lpc' # lpc /\ RawAnswer(event))
           => /\ out' = <<OutNamesHeader, OutBullet("a"), OutBullet("b"),
                          OutTotal(2)>>
              /\ ~EXPECTING_TOOL_NAMES'
              /\ lpc' = "next"
        /\ (ListenerStep /\ lpc = "l45" /\ lpc' # lpc /\ NamesAnswer(event)
            /\ ~EXPECTING_TOOL_NAMES)
           => lpc' = "l52"
        /\ (ListenerStep /\ lpc = "l52" /\ lpc' # lpc /\ NamesAnswer(event)
            /\ ~EXPECTING_TOOL_INFO)
           => /\ out' = <<OutEvent(event.json)>>
              /\ lpc' = "next" ]_vars
\* the answer to request 1, sent by choice 1, has been printed as the names
\* listing and has cleared the flag, while the answer to request 2, sent by
\* list_tool_names, is still to come
C20_Witness ==
    /\ lpc = "next"
    /\ event = Answer(1, ListCmd, "main")
    /\ out = <<OutNamesHeader, OutBullet("a"), OutBullet("b"), OutTotal(2)>>
    /\ ~EXPECTING_TOOL_NAMES /\ ~EXPECTING_TOOL_INFO
    /\ inflight = <<Answer(2, ListCmd, "list_tool_names")>>

\* C21: with EXPECTING_TOOL_INFO set, the scan of a result.tools event takes
\* the entries in order from the first, prints nothing for an entry of
\* another name, and at the first entry whose name is the requested one
\* prints that entry's descriptor and stops; what it has printed when it
\* stops is exactly one record, the descriptor or not-found; then the flag
\* and the requested name are cleared.
C21_FirstMatchPrinted ==
    [][ (ListenerStep /\ event.json \in GoodToolsData) =>
        LET items == NamedEntries(event) IN
        /\ (lpc = "l52" /\ lpc' # "l52" /\ EXPECTING_TOOL_INFO)
            => (lpc' = "l54" /\ idx' = 1 /\ out' = <<>>)
        /\ (lpc = "l54" /\ <<lpc, idx>>' # <<lpc, idx>>)
            => /\ (idx \in 1..Len(items)
                   /\ Str(EntryName(items[idx])) = REQUESTED_TOOL_NAME)
                  => /\ out' = <<OutInfo(REQUESTED_TOOL_NAME, items[idx])>>
                     /\ lpc' = "l64"
               /\ lpc' = "l54" => (idx' = idx + 1 /\ out' = <<>>)
               /\ lpc' = "l64"
                  => /\ Len(out') = 1
                     /\ out'[1].k \in {"info", "notfound"}
                     /\ out'[1].k = "notfound" => idx > Len(items)
        /\ (lpc = "l64" /\ lpc' # lpc)
            => (lpc' = "l65" /\ out' = out /\ ~EXPECTING_TOOL_INFO')
        /\ (lpc = "l65" /\ lpc' # lpc)
            => (lpc' = "next" /\ out' = out /\ REQUESTED_TOOL_NAME' = None) ]_vars
\* tool a was looked up in a listing of two entries named a: the first of
\* them was printed, and the intent is cleared
C21_Witness ==
    /\ lpc = "next"
    /\ event = JsonEvent(ToolsResult(JList(<<Tool("a", "m1"), Tool("a", "m2")>>)))
    /\ out = <<OutInfo(Str("a"), Tool("a", "m1"))>>
    /\ ~EXPECTING_TOOL_INFO /\ REQUESTED_TOOL_NAME = None

\* C22: a send_command whose POST raises still takes its id: the body
\* carries REQUEST_ID, the call returns that id, and REQUEST_ID is one more
\* afterwards, so the next call carries the following id.
C22_FailedPostKeepsId ==
    [][ (MainStep /\ mpc = "l85")
        => /\ lastPost'.body.id = REQUEST_ID
           /\ ~lastPost'.ok
              => /\ REQUEST_ID' = REQUEST_ID + 1
                 /\ ret' = Returned(PyInt(REQUEST_ID))
                 /\ posts' = Append(posts, REQUEST_ID) ]_vars
\* the second POST of the run failed: it carried id 2, the call returned 2
\* and the counter is at 3
C22_Witness ==
    /\ mpc = "menu" /\ lastPost # NoPost /\ ~lastPost.ok
    /\ lastPost.body.id = 2 /\ ret = Returned(PyInt(2)) /\ REQUEST_ID = 3

\* C23: an event the stream yields when STOP_EVENT is set ends the loop
\* unprocessed: the session id, the flags and the requested name keep their
\* values and nothing is printed; the listener handles nothing afterwards.
C23_StopObserved ==
    [][ /\ (ListenerStep /\ lpc = "next" /\ STOP_EVENT /\ lpc' # lpc)
           => /\ lpc' \in {"stopped", "lost"}
              /\ UNCHANGED << SESSION_ID, EXPECTING_TOOL_NAMES, EXPECTING_TOOL_INFO,
                              REQUESTED_TOOL_NAME, event, out >>
        /\ (ListenerStep /\ lpc = "next" /\ STOP_EVENT) => UNCHANGED << event, out >>
        /\ lpc = "stopped" => (lpc' = "stopped" /\ UNCHANGED << event, out, SESSION_ID >>) ]_vars
\* Exit was chosen while a names listing was expected; the next event ended
\* the loop and the intent is still there
C23_Witness ==
    /\ lpc = "stopped" /\ STOP_EVENT /\ EXPECTING_TOOL_NAMES /\ mpc = "l180"

\* C24: list_tool_names sets EXPECTING_TOOL_NAMES as it starts, and
\* show_tool_info sets EXPECTING_TOOL_INFO and then REQUESTED_TOOL_NAME,
\* before they call send_command; the main thread never clears a flag or
\* the name, and a POST is made only from inside send_command, so at the
\* POST of such an operation its intent has been written.
C24_IntentBeforePost ==
    [][ /\ (MainStep /\ caller # "list_tool_names" /\ caller' = "list_tool_names")
           => (EXPECTING_TOOL_NAMES' /\ posts' = posts /\ mpc' = "l81")
        /\ (MainStep /\ caller # "show_tool_info" /\ caller' = "show_tool_info")
           => (EXPECTING_TOOL_INFO' /\ posts' = posts /\ mpc' = "l120")
        /\ (MainStep /\ mpc = "l120")
           => (REQUESTED_TOOL_NAME' = tool_name /\ tool_name # None
               /\ posts' = posts /\ mpc' = "l81")
        /\ MainStep
           => /\ EXPECTING_TOOL_NAMES => EXPECTING_TOOL_NAMES'
              /\ EXPECTING_TOOL_INFO => EXPECTING_TOOL_INFO'
              /\ REQUESTED_TOOL_NAME' # REQUESTED_TOOL_NAME => mpc = "l120"
        /\ posts' # posts => mpc = "l85" ]_vars
\* show_tool_info("b") is about to POST with its flag and its name in place
C24_Witness ==
    /\ mpc = "l85" /\ caller = "show_tool_info" /\ tool_name = Str("b")
    /\ EXPECTING_TOOL_INFO /\ REQUESTED_TOOL_NAME = Str("b")

\* C25: a step of the listener leaves REQUEST_ID alone and never sets a
\* flag or the requested name (it only clears them); a step of the main
\* thread leaves SESSION_ID alone.
C25_SingleWriter ==
    [][ /\ ListenerStep
           => /\ REQUEST_ID' = REQUEST_ID
              /\ EXPECTING_TOOL_NAMES' => EXPECTING_TOOL_NAMES
              /\ EXPECTING_TOOL_INFO' => EXPECTING_TOOL_INFO
              /\ REQUESTED_TOOL_NAME' \in {REQUESTED_TOOL_NAME, None}
        /\ MainStep => SESSION_ID' = SESSION_ID ]_vars
\* two requests were posted, and the listener has printed a descriptor and
\* cleared the tool-info intent and the name
C25_Witness ==
    /\ REQUEST_ID = 3 /\ Truthy(SESSION_ID) /\ lpc = "next"
    /\ Len(out) = 1 /\ out[1].k = "info"
    /\ ~EXPECTING_TOOL_INFO /\ REQUESTED_TOOL_NAME = None

\* the arguments of a tools/call body
ArgumentsOf(body) == Get("arguments", body.params)

\* C26: the arguments of every tools/call body posted are a JSON object.
C26_ArgumentsAreObject ==
    (lastPost # NoPost /\ lastPost.body.method = "tools/call")
        => ArgumentsOf(lastPost.body).t = "obj"

\* C27: the session id set by a bootstrap event is the whole text after
\* "/messages?sessionId=".
C27_WholeValue ==
    [][ \A v \in BootValues :
          (ListenerStep /\ lpc = "next" /\ ~STOP_EVENT /\ event' = BootEvent(v))
          => SESSION_ID' = Str(v) ]_vars

\* a request of list_tool_names (of show_tool_info) is outstanding: the call
\* is under way, its answer is on its way, or the listener is handling it
NamesOutstanding ==
    \/ caller = "list_tool_names"
    \/ \E i \in 1..Len(inflight) : inflight[i].by = "list_tool_names"
    \/ (lpc \in {"l45", "l46"} /\ event.by = "list_tool_names")
InfoOutstanding ==
    \/ caller = "show_tool_info"
    \/ \E i \in 1..Len(inflight) : inflight[i].by = "show_tool_info"
    \/ (lpc \in {"l45", "l46", "l52", "l54", "l64"} /\ event.by = "show_tool_info")

\* C28: a flag is set only while a tools/list request of the operation that
\* sets it is outstanding.
C28_IntentOnlyWhileOutstanding ==
    /\ EXPECTING_TOOL_NAMES => NamesOutstanding
    /\ EXPECTING_TOOL_INFO => InfoOutstanding

\* C29: when the listener scans a result.tools event for the requested
\* name, REQUESTED_TOOL_NAME is the argument of the latest show_tool_info
\* call, not None and not the name of an earlier call; and the name is None
\* whenever EXPECTING_TOOL_INFO is false (but between lines 64 and 65).
C29_FilterNameIsCurrent ==
    /\ lpc = "l54" => REQUESTED_TOOL_NAME # None
    /\ (lpc = "l54" /\ tool_name # None) => REQUESTED_TOOL_NAME = tool_name
    /\ (~EXPECTING_TOOL_INFO /\ lpc # "l65") => REQUESTED_TOOL_NAME = None

\* C30: with only list_tool_names calls and one answer per request, every
\* answer the listener handles passes the test of line 45 and is printed as
\* a names listing.
C30_EveryAnswerIsNamesListing ==
    [][ (ListenerStep /\ lpc = "l45" /\ lpc' # lpc) => lpc' = "l46" ]_vars

(***************************************************************************)
(* Progress.  The server of SpecServed, which sends nothing but the        *)
(* bootstrap event and its answers, and a stream that may also end.  The   *)
(* two threads are scheduled: a step of the main thread that waits for     *)
(* nothing outside the process is taken, and so is a step of the listener  *)
(* that handles the event it holds.  Nothing makes the user type, the      *)
(* server send, or the connection fail.                                    *)
(***************************************************************************)
\* the values of lpc at which sse_listener has returned
Ended == {"stopped", "lost", "ended", "crashed"}

\* line 26: the iteration over the stream ends with no exception; the finally
\* clause of lines 74-75 prints and sse_listener returns
StreamEnds ==
    /\ ProcessAlive
    /\ lpc = "next"
    /\ lpc' = "ended"
    /\ UNCHANGED << globals, event, idx, out, mainLocals, inflight, senders, tab >>

ListenerLive ==
    \/ ListenerServed
    \/ StreamEnds

NextLive == ListenerLive \/ MainServed

\* the steps of the main thread that wait for no input
MainProgress ==
    \/ WaitSession
    \/ CheckSession
    \/ Menu
    \/ StoreToolName
    \/ SendCheck
    \/ \E ok \in BOOLEAN : SendPostServed(ok)
    \/ Finish

\* the steps of the listener that handle the event it holds
ListenerProgress ==
    \/ CheckNames
    \/ PrintNames
    \/ CheckInfo
    \/ Scan
    \/ ClearInfo
    \/ ClearName

SpecLive ==
    /\ Init
    /\ [][NextLive]_vars
    /\ WF_vars(MainProgress)
    /\ WF_vars(ListenerProgress)

(***************************************************************************)
(* send_command called from two threads side by side, on an established   *)
(* session.  Each thread runs lines 81-105 a statement at a time; the      *)
(* statement "REQUEST_ID += 1" of line 104 loads the global and stores the *)
(* sum in two steps, as the interpreter runs it.                           *)
(***************************************************************************)
InitSenders ==
    /\ SESSION_ID = Str(<<"a">>)
    /\ STOP_EVENT = FALSE
    /\ REQUEST_ID = 1
    /\ EXPECTING_TOOL_NAMES = FALSE
    /\ EXPECTING_TOOL_INFO = FALSE
    /\ REQUESTED_TOOL_NAME = None
    /\ lpc = "next"
    /\ event = BootEvent(<<"a">>)
    /\ idx = 0
    /\ out = <<OutSession(SESSION_ID)>>
    /\ mpc = "input"
    /\ cmd = NoCmd
    /\ tool_name = None
    /\ ret = NoReturn
    /\ posts = <<>>
    /\ lastPost = NoPost
    /\ params_input = None
    /\ caller = NoCaller
    /\ inflight = <<>>
    /\ senders = NoSenders
    /\ tab = NoCall

\* what a step of a sender thread leaves alone
senderFrame == << SESSION_ID, STOP_EVENT, EXPECTING_TOOL_NAMES, EXPECTING_TOOL_INFO,
                  REQUESTED_TOOL_NAME, listenerLocals, mpc, cmd, tool_name, ret,
                  params_input, caller, inflight, tab >>

\* the calls begun and not yet posted
Calling == { t \in Threads : senders[t].pc \in {"l81", "l85", "l93"} }

\* line 78: thread t calls send_command("tools/list", {})
SenderCall(t) ==
    /\ senders[t].pc = "idle"
    /\ Len(posts) + Cardinality(Calling) < MaxSends
    /\ LET busy == { u \in Threads \ {t} : senders[u].pc # "idle" }
       IN  senders' = [u \in Threads |->
                IF u = t
                THEN [IdleSender EXCEPT !.pc = "l81",
                         !.overlapped = senders[t].overlapped \/ busy # {}]
                ELSE [senders[u] EXCEPT !.overlapped = @ \/ u \in busy]]
    /\ UNCHANGED << senderFrame, REQUEST_ID, posts, lastPost >>

\* lines 81-83: if not SESSION_ID: return None
SenderCheck(t) ==
    /\ senders[t].pc = "l81"
    /\ senders' = IF Truthy(SESSION_ID)
                  THEN [senders EXCEPT ![t].pc = "l85"]
                  ELSE [senders EXCEPT ![t].pc = "idle", ![t].ret = Returned(None)]
    /\ UNCHANGED << senderFrame, REQUEST_ID, posts, lastPost >>

\* lines 85-90: the payload is built with the REQUEST_ID of that moment
SenderPayload(t) ==
    /\ senders[t].pc = "l85"
    /\ senders' = [senders EXCEPT ![t].pc = "l93", ![t].payload_id = REQUEST_ID]
    /\ UNCHANGED << senderFrame, REQUEST_ID, posts, lastPost >>

\* lines 92-101: requests.post sends the payload; a failure is only printed
SenderPost(t, ok) ==
    /\ senders[t].pc = "l93"
    /\ posts' = Append(posts, senders[t].payload_id)
    /\ lastPost' = [session |-> SESSION_ID,
                    body |-> Payload(senders[t].payload_id, ListCmd), ok |-> ok]
    /\ senders' = [senders EXCEPT ![t].pc = "l103"]
    /\ UNCHANGED << senderFrame, REQUEST_ID >>

\* line 103: current_request_id = REQUEST_ID
SenderRead(t) ==
    /\ senders[t].pc = "l103"
    /\ senders' = [senders EXCEPT ![t].pc = "l104",
                                  ![t].current_request_id = REQUEST_ID]
    /\ UNCHANGED << senderFrame, REQUEST_ID, posts, lastPost >>

\* line 104, first half: REQUEST_ID is loaded
SenderLoad(t) ==
    /\ senders[t].pc = "l104"
    /\ senders' = [senders EXCEPT ![t].pc = "l104store", ![t].loaded = REQUEST_ID]
    /\ UNCHANGED << senderFrame, REQUEST_ID, posts, lastPost >>

\* SenderStore that stores the value loaded, not the sum
SenderStoreSame(t) ==
    /\ senders[t].pc = "l104store"
    /\ REQUEST_ID' = senders[t].loaded
    /\ senders' = [senders EXCEPT ![t].pc = "l105"]
    /\ UNCHANGED << senderFrame, posts, lastPost >>

\* line 104, second half: the sum is stored in REQUEST_ID
SenderStore(t) ==
    /\ senders[t].pc = "l104store"
    /\ REQUEST_ID' = senders[t].loaded + 1
    /\ senders' = [senders EXCEPT ![t].pc = "l105"]
    /\ UNCHANGED << senderFrame, posts, lastPost >>

\* line 105: return current_request_id
SenderReturn(t) ==
    /\ senders[t].pc = "l105"
    /\ senders' = [senders EXCEPT ![t].pc = "idle",
                      ![t].ret = Returned(PyInt(senders[t].current_request_id))]
    /\ UNCHANGED << senderFrame, REQUEST_ID, posts, lastPost >>

NextSenders ==
    \/ \E t \in Threads : SenderCall(t)
    \/ \E t \in Threads : SenderCheck(t)
    \/ \E t \in Threads : SenderPayload(t)
    \/ \E t \in Threads, ok \in BOOLEAN : SenderPost(t, ok)
    \/ \E t \in Threads : SenderRead(t)
    \/ \E t \in Threads : SenderLoad(t)
    \/ \E t \in Threads : SenderStore(t)
    \/ \E t \in Threads : SenderReturn(t)

SpecSenders == InitSenders /\ [][NextSenders]_vars

\* C31: every send_command call that posts returns the id its body carried,
\* and no two posted bodies carry the same id, also when two threads call
\* send_command side by side.
C31_ReturnedIdIsPostedIdAndUnique ==
    /\ \A t \in Threads :
         (senders[t].ret # NoReturn /\ senders[t].ret # Returned(None))
            => senders[t].ret.v.n = senders[t].payload_id
    /\ \A i, j \in 1..Len(posts) : i # j => posts[i] # posts[j]

\* C31 for calls that never overlap: as long as no call has run while another
\* thread was inside send_command, every call returned the id it posted and
\* no id was posted twice.
C31_SequentialCallsKeepIds ==
    (\A t \in Threads : ~senders[t].overlapped) => C31_ReturnedIdIsPostedIdAndUnique

\* both threads have called, one after the other, and got the ids 1 and 2
C31_Witness ==
    /\ \A t \in Threads : ~senders[t].overlapped /\ senders[t].pc = "idle"
    /\ posts = <<1, 2>>
    /\ senders[1].ret = Returned(PyInt(1))
    /\ senders[2].ret = Returned(PyInt(2))

\* C32: if sse_listener returns before a session id is published, whether on
\* a connection error or because the stream ended, the startup wait ends and
\* the program exits.
C32_LoopEndBeforeSessionExits ==
    (lpc \in Ended /\ SESSION_ID = None) ~> (mpc = "exited")

\* C33: once the stop signal is set the receive loop eventually exits, also
\* when the server sends nothing more.
C33_StopEndsReceiveLoop ==
    STOP_EVENT ~> (lpc \in Ended)

\* C33 as the code has it: the listener sets the stop signal only as it
\* returns, and with the signal set the loop ends at the next thing the
\* stream does (an event, a failure, its end), the event left unhandled.
C33_StopEndsLoopAtNextEvent ==
    [][ /\ (ListenerStep /\ ~STOP_EVENT /\ STOP_EVENT') => lpc' = "lost"
        /\ (ListenerStep /\ STOP_EVENT /\ lpc = "next")
              => /\ lpc' \in Ended
                 /\ SESSION_ID' = SESSION_ID
                 /\ out' = out
                 /\ event' = event ]_vars

\* Exit was chosen with an answer on its way, and the answer ended the loop
C33_Witness ==
    /\ STOP_EVENT
    /\ lpc = "stopped"
    /\ mpc \in {"menu", "l180"}
    /\ Len(posts) = 1
    /\ inflight = <<>>

\* C34: the Exit choice sets the stop signal; from then on the Shell calls
\* send_command no more, leaves the loop and joins, and the main thread ends
\* whether the receive loop has returned or not.
C34_ExitEndsMainThread ==
    /\ [][ /\ (mpc = "input" /\ ~STOP_EVENT /\ STOP_EVENT' /\ MainStep)
                => (mpc' = "menu" /\ posts' = posts)
           /\ (STOP_EVENT /\ mpc = "menu")
                => (mpc' \in {"menu", "l180"} /\ posts' = posts)
           /\ (mpc = "l180") => (mpc' \in {"l180", "done"} /\ posts' = posts)
           /\ (mpc = "done") => (mpc' = "done" /\ posts' = posts) ]_vars
    /\ ((STOP_EVENT /\ mpc = "menu") ~> (mpc = "done"))

\* the main thread has ended after Exit while the listener still waits for
\* an event
C34_Witness ==
    /\ mpc = "done"
    /\ STOP_EVENT
    /\ lpc = "next"
    /\ Truthy(SESSION_ID)

\* C35: once a bootstrap-shaped event has been processed (SESSION_ID is no
\* longer None) the session is established whatever value the event carried:
\* the startup wait of line 129 can end, and a send_command call at line 81
\* goes on to build its payload.
C35_BootstrapEstablishesSession ==
    SESSION_ID # None =>
        /\ mpc = "wait" => ENABLED <<WaitSession>>_vars
        /\ mpc = "l81" => ENABLED (SendCheck /\ mpc' = "l85")

\* C36: an event with empty data is skipped: the step that takes it leaves
\* the session id, both intent flags and the requested name as they were,
\* prints nothing, and the loop waits for the next event.
C36_EmptyEventSkipped ==
    [][ (ListenerStep /\ lpc = "next" /\ event' # event /\ event'.text = <<>>)
          => /\ SESSION_ID' = SESSION_ID
             /\ EXPECTING_TOOL_NAMES' = EXPECTING_TOOL_NAMES
             /\ EXPECTING_TOOL_INFO' = EXPECTING_TOOL_INFO
             /\ REQUESTED_TOOL_NAME' = REQUESTED_TOOL_NAME
             /\ out' = <<>>
             /\ lpc' = "next" ]_vars

\* an empty event was taken with a session and an info request pending
C36_Witness ==
    /\ event = EmptyEvent
    /\ lpc = "next"
    /\ out = <<>>
    /\ Truthy(SESSION_ID)
    /\ EXPECTING_TOOL_INFO
    /\ REQUESTED_TOOL_NAME = Str("a")

(***************************************************************************)
(* MCPTestTab.execute_tool of gradio-app/main.py: a function of its three  *)
(* arguments and of what client.tool_runtime.invoke_tool does when called. *)
(* Its value here is the string it returns (its mark and what it says) or  *)
(* the exception that leaves it, with the invoke_tool calls it made.       *)
(***************************************************************************)
\* the dropdown values: nothing selected (None), the empty string, a name
TabNames == { None, Str(<<>>), Str(<<"g">>) }

\* the parameter text: the texts of ParamInputs, and None
TabParams == ParamInputs \cup { None }

\* what invoke_tool does: raises, returns a falsy result, returns a result
\* with a content list, with a content that is no list, with text only, with
\* data that json.dumps takes, with data that json.dumps rejects, or with
\* none of these attributes
Remotes == { "raises", "falsy", "content_list", "content", "text", "data",
             "data_unserialisable", "other" }

ErrorString(what) == [raised |-> FALSE, mark |-> "error", text |-> what]
SuccessString(what) == [raised |-> FALSE, mark |-> "success", text |-> what]
Raised(exc) == [raised |-> TRUE, mark |-> "-", text |-> exc]

\* line 452: json.loads(params_json) if params_json.strip() else {}
ParseParams(params_json) ==
    IF params_json = None
    THEN [raises |-> "AttributeError", value |-> JNull]
    ELSE IF Strip(params_json.text) = <<>>
    THEN [raises |-> "-", value |-> JObj({})]
    ELSE IF params_json.json = NotJSON
    THEN [raises |-> "JSONDecodeError", value |-> JNull]
    ELSE [raises |-> "-", value |-> params_json.json]

\* lines 465-496: the text made of a truthy result; the except clause of
\* line 494 falls back on str(result)
Format(remote) ==
    CASE remote = "content_list" -> "joined text"
      [] remote = "content" -> "str(result.content)"
      [] remote = "text" -> "result.text"
      [] remote = "data" -> "json.dumps(result.data)"
      [] remote = "data_unserialisable" -> "str(result)"
      [] OTHER -> "str(result)"

\* lines 450-498: the body of the outer try
Body(method_name, params_json, remote) ==
    LET parsed == ParseParams(params_json)
        call == [tool_name |-> method_name, kwargs |-> parsed.value]
    IN  IF parsed.raises = "JSONDecodeError"
        THEN [invocations |-> <<>>, ret |-> ErrorString("invalid JSON parameters")]
        ELSE IF parsed.raises # "-"
        THEN [invocations |-> <<>>, ret |-> Raised(parsed.raises)]
        ELSE IF remote = "raises"
        THEN [invocations |-> <<call>>, ret |-> Raised("Exception")]
        ELSE IF remote = "falsy"
        THEN [invocations |-> <<call>>, ret |-> ErrorString("no result returned")]
        ELSE [invocations |-> <<call>>, ret |-> SuccessString(Format(remote))]

\* Handle without the except clause of lines 500-501
HandleNothing(outcome) ==
    outcome

\* lines 500-501: except Exception as e: return the error string
Handle(outcome) ==
    IF outcome.ret.raised
    THEN [outcome EXCEPT !.ret = ErrorString("error executing method")]
    ELSE outcome

\* lines 441-501
execute_tool(toolgroup_name, method_name, params_json, remote) ==
    IF ~Truthy(toolgroup_name)
    THEN [invocations |-> <<>>, ret |-> ErrorString("select a toolgroup")]
    ELSE IF ~Truthy(method_name)
    THEN [invocations |-> <<>>, ret |-> ErrorString("select a method")]
    ELSE Handle(Body(method_name, params_json, remote))

InitTab ==
    /\ SESSION_ID = None
    /\ STOP_EVENT = FALSE
    /\ REQUEST_ID = 1
    /\ EXPECTING_TOOL_NAMES = FALSE
    /\ EXPECTING_TOOL_INFO = FALSE
    /\ REQUESTED_TOOL_NAME = None
    /\ lpc = "connect"
    /\ event = NoEvent
    /\ idx = 0
    /\ out = <<>>
    /\ mpc = "wait"
    /\ cmd = NoCmd
    /\ tool_name = None
    /\ ret = NoReturn
    /\ posts = <<>>
    /\ lastPost = NoPost
    /\ params_input = None
    /\ caller = NoCaller
    /\ inflight = <<>>
    /\ senders = NoSenders
    /\ tab \in { [pc |-> "called", toolgroup_name |-> g, method_name |-> m,
                  params_json |-> p, remote |-> r,
                  invocations |-> <<>>, ret |-> NoReturn] :
                 g \in TabNames, m \in TabNames, p \in TabParams, r \in Remotes }

\* the call runs and returns
TabExecute ==
    /\ tab.pc = "called"
    /\ LET o == execute_tool(tab.toolgroup_name, tab.method_name,
                             tab.params_json, tab.remote)
       IN  tab' = [tab EXCEPT !.pc = "returned",
                              !.invocations = o.invocations,
                              !.ret = o.ret]
    /\ UNCHANGED << globals, listenerLocals, mainLocals, inflight, senders >>

NextTab == TabExecute

SpecTab == InitTab /\ [][NextTab]_vars

\* C37: execute_tool calls invoke_tool at most once, and not at all when the
\* toolgroup name or the method name is empty or the parameter text is
\* non-blank and no JSON; blank text is passed as an empty mapping; every
\* failure, an exception of invoke_tool included, comes back as an error
\* string, and no exception leaves the call.
C37_ExecuteToolGuardsAndCatches ==
    tab.pc = "returned" =>
        /\ Len(tab.invocations) <= 1
        /\ (\/ ~Truthy(tab.toolgroup_name)
            \/ ~Truthy(tab.method_name)
            \/ InvalidParams(tab.params_json)) => tab.invocations = <<>>
        /\ (/\ tab.params_json # None
            /\ Strip(tab.params_json.text) = <<>>
            /\ tab.invocations # <<>>) => tab.invocations[1].kwargs = JObj({})
        /\ ~tab.ret.raised
        /\ (\/ ~Truthy(tab.toolgroup_name)
            \/ ~Truthy(tab.method_name)
            \/ tab.params_json = None
            \/ InvalidParams(tab.params_json)
            \/ tab.remote \in {"raises", "falsy"}) => tab.ret.mark = "error"

\* invoke_tool was called once with blank parameters and raised
C37_Witness ==
    /\ tab.pc = "returned"
    /\ tab.remote = "raises"
    /\ tab.params_json = [text |-> <<" ">>, json |-> NotJSON]
    /\ tab.invocations = <<[tool_name |-> Str(<<"g">>), kwargs |-> JObj({})]>>
    /\ tab.ret = ErrorString("error executing method")

====
